---- MODULE Spec2Model ----
(***************************************************************************)
(* Model of static/jovian/js/chatbot.js: the chat stream client.           *)
(*                                                                         *)
(* Text is a sequence of one-character strings.  A response body is a      *)
(* sequence of bytes; every character of the model's alphabet is one byte  *)
(* (written as the character itself) except the two-byte character         *)
(* EAcute, whose bytes are LeadByte and ContByte.                          *)
(*                                                                         *)
(* JSON payloads are written in a compact alphabet in which a symbol       *)
(* stands for a JSON lexeme:                                               *)
(*   "{" "}"   the braces of an object                                     *)
(*   "G"       "node":"general_message"                                    *)
(*   "O"       "node":"<some other node>"                                  *)
(*   "T" "F"   "complete":true / "complete":false  (absent: undefined)     *)
(*   "N"       the escape \n inside the content string                     *)
(*   "~"       the JSON text null                                          *)
(*   "5"       a JSON number                                               *)
(*   other characters between node and flag: the content string           *)
(***************************************************************************)
EXTENDS Integers, Sequences, FiniteSets, TLC

(* ------------------------------ bounds -------------------------------- *)

MaxSubmits == 3        \* startStream calls in a behaviour of Spec
MaxRecords == 2        \* records in a response body of SpecStream
Packet == 13           \* bytes in a chunk of a response body of Spec
MaxChunk == 5          \* bytes in a chunk of SpecStream, unless the whole body

(* ------------------------------ text ---------------------------------- *)

NL == "\n"
SP == " "
EAcute == "e'"          \* U+00E9, two bytes in UTF-8
LeadByte == "C3"
ContByte == "A9"
Replacement == "U+FFFD"

\* White space as String.prototype.trim and the regular expression \s see it.
WhiteSpace == {SP, NL}

RECURSIVE TrimStart(_)
TrimStart(s) ==
  IF s # <<>> /\ Head(s) \in WhiteSpace THEN TrimStart(Tail(s)) ELSE s

RECURSIVE TrimEnd(_)
TrimEnd(s) ==
  IF s # <<>> /\ s[Len(s)] \in WhiteSpace
    THEN TrimEnd(SubSeq(s, 1, Len(s) - 1))
    ELSE s

\* String.prototype.trim
Trim(s) == TrimEnd(TrimStart(s))

\* String.prototype.replaceAll(c, r) for a one-character pattern c
RECURSIVE replaceAll(_, _, _)
replaceAll(s, c, r) ==
  IF s = <<>> THEN <<>>
  ELSE (IF Head(s) = c THEN r ELSE <<Head(s)>>) \o replaceAll(Tail(s), c, r)

escapeHtml(s) ==
  LET s1 == replaceAll(s, "&", <<"&", "a", "m", "p", ";">>)
      s2 == replaceAll(s1, "<", <<"&", "l", "t", ";">>)
      s3 == replaceAll(s2, ">", <<"&", "g", "t", ";">>)
      s4 == replaceAll(s3, "\"", <<"&", "q", "u", "o", "t", ";">>)
      s5 == replaceAll(s4, "'", <<"&", "#", "3", "9", ";">>)
  IN  replaceAll(s5, NL, <<"<", "b", "r", "/", ">">>)

(* ------------------------ incremental decoding ------------------------ *)

\* One byte through a streaming UTF-8 decoder whose pending bytes are p:
\* the characters it emits and the bytes it keeps.
DecodeByte(p, b) ==
  IF p = <<>>
    THEN IF b = LeadByte THEN [out |-> <<>>, pending |-> <<b>>]
         ELSE IF b = ContByte THEN [out |-> <<Replacement>>, pending |-> <<>>]
         ELSE [out |-> <<b>>, pending |-> <<>>]
    ELSE IF b = ContByte THEN [out |-> <<EAcute>>, pending |-> <<>>]
         ELSE IF b = LeadByte THEN [out |-> <<Replacement>>, pending |-> <<b>>]
         ELSE [out |-> <<Replacement, b>>, pending |-> <<>>]

\* The bytes of one call through the decoder, one after the other
RECURSIVE DecodeAll(_, _)
DecodeAll(p, bytes) ==
  IF bytes = <<>> THEN [out |-> <<>>, pending |-> p]
  ELSE LET d == DecodeByte(p, Head(bytes))
           r == DecodeAll(d.pending, Tail(bytes))
       IN  [out |-> d.out \o r.out, pending |-> r.pending]

\* TextDecoder.decode(value): every call flushes, an incomplete character
\* at the end of the chunk becomes U+FFFD and nothing is kept
decodeNoStream(p, bytes) ==
  LET r == DecodeAll(<<>>, bytes)
  IN  [out |-> IF r.pending = <<>> THEN r.out ELSE Append(r.out, Replacement),
       pending |-> <<>>]

\* TextDecoder.decode(value, {stream: true}): the bytes of an incomplete
\* character at the end of the chunk are kept for the next call
decode(p, bytes) == DecodeAll(p, bytes)

\* The UTF-8 bytes of a text (what the server sends)
RECURSIVE encode(_)
encode(s) ==
  IF s = <<>> THEN <<>>
  ELSE (IF Head(s) = EAcute THEN <<LeadByte, ContByte>> ELSE <<Head(s)>>)
       \o encode(Tail(s))

(* --------------------------- record parsing --------------------------- *)

\* String.prototype.split(/\n\n/): the segments between the delimiters,
\* found left to right; always at least one segment.
RECURSIVE SplitAcc(_, _)
SplitAcc(s, cur) ==
  IF s = <<>> THEN <<cur>>
  ELSE IF Len(s) >= 2 /\ s[1] = NL /\ s[2] = NL
    THEN <<cur>> \o SplitAcc(SubSeq(s, 3, Len(s)), <<>>)
    ELSE SplitAcc(Tail(s), Append(cur, Head(s)))

split(s) == SplitAcc(s, <<>>)

DataPrefix == <<"d", "a", "t", "a", ":">>

\* Index of the first occurrence of "data:" in part, 0 when there is none
IndexOfData(part) ==
  LET hits == {i \in 1..Len(part) :
                 /\ i + 4 <= Len(part)
                 /\ SubSeq(part, i, i + 4) = DataPrefix}
  IN  IF hits = {} THEN 0 ELSE CHOOSE i \in hits : \A j \in hits : i <= j

\* (.*) : up to the first line terminator
RECURSIVE RestOfLine(_)
RestOfLine(s) ==
  IF s = <<>> \/ Head(s) = NL THEN <<>>
  ELSE <<Head(s)>> \o RestOfLine(Tail(s))

\* part.match(/data:\s*(.*)/): whether it matches, and group 1
match(part) ==
  LET i == IndexOfData(part)
  IN  IF i = 0 THEN [found |-> FALSE, group |-> <<>>]
      ELSE [found |-> TRUE,
            group |-> RestOfLine(TrimStart(SubSeq(part, i + 5, Len(part))))]

ContentChars == {"a", "&", "<", "N", EAcute, SP, "d", "t", ":"}

RECURSIVE Unescape(_)
Unescape(s) ==
  IF s = <<>> THEN <<>>
  ELSE <<IF Head(s) = "N" THEN NL ELSE Head(s)>> \o Unescape(Tail(s))

\* JSON.parse(text): throws (ok = FALSE) or yields a value
JSONparse(text) ==
  IF text = <<"~">> THEN [ok |-> TRUE, type |-> "null"]
  ELSE IF text = <<"5">> THEN [ok |-> TRUE, type |-> "number"]
  ELSE IF /\ Len(text) >= 3
          /\ text[1] = "{"
          /\ text[Len(text)] = "}"
          /\ text[2] \in {"G", "O"}
    THEN LET inner == SubSeq(text, 3, Len(text) - 1)
             flagged == inner # <<>> /\ inner[Len(inner)] \in {"T", "F"}
             content == IF flagged THEN SubSeq(inner, 1, Len(inner) - 1)
                        ELSE inner
         IN  IF \A k \in 1..Len(content) : content[k] \in ContentChars
               THEN [ok |-> TRUE, type |-> "object",
                     node |-> IF text[2] = "G" THEN "general_message"
                              ELSE "other",
                     content |-> Unescape(content),
                     complete |-> IF flagged THEN inner[Len(inner)] = "T"
                                  ELSE FALSE]
               ELSE [ok |-> FALSE, type |-> "SyntaxError"]
    ELSE [ok |-> FALSE, type |-> "SyntaxError"]

(* ------------------------------ state --------------------------------- *)

VARIABLES
  sessionId,          \* const sessionId (line 1)
  dom,                \* emptyState, sendFirstMessage, fotterChat
  messageInput,       \* messageInput.value (the same element as textarea)
  firstMessageInput,  \* firstMessageInput.value
  messagesEl,         \* children of #messages, in document order
  controller,         \* 0 is null, otherwise the AbortController of that call
  aborted,            \* controllers whose signal is aborted
  tasks,              \* one record per startStream call that reached line 109
  requests,           \* the requests handed to fetch, in order
  calls,              \* history: one record per startStream call
  trace               \* history: per task, what it read and processed

vars == <<sessionId, dom, messageInput, firstMessageInput, messagesEl,
          controller, aborted, tasks, requests, calls, trace>>

SessionIds == {"sess-k3f9-a1", "sess-z0q2-b7"}

\* What the user types
Inputs == {<<SP, NL>>, <<SP, "h", "<", SP>>}

\* The content of a new agent body: the typing indicator (lines 67-83)
TypingDot == [dot |-> TRUE, html |-> <<>>]

HtmlBesideDot(h) == [dot |-> TRUE, html |-> h]

\* element.innerHTML = h replaces the children of the element
Html(h) == [dot |-> FALSE, html |-> h]

ServerErrorHtml == <<"S", "e", "r", "v", "e", "r", " ", "e", "r", "r", "o", "r", ".">>

InterruptedHtml ==
  <<"<", "s", "p", "a", "n", " ", "c", "l", "a", "s", "s", "=", "\"",
    "t", "e", "x", "t", "-", "r", "e", "d", "-", "5", "0", "0", "\"", ">",
    "C", "o", "n", "n", "e", "c", "t", "i", "o", "n", " ",
    "i", "n", "t", "e", "r", "r", "u", "p", "t", "e", "d",
    "<", "/", "s", "p", "a", "n", ">">>

TaskIds == DOMAIN tasks
Live(t) == tasks[t].pc # "done"
AgentBody(t) == messagesEl[tasks[t].agentBody].body

\* A rejected promise's reaction runs in the microtask checkpoint that ends
\* the task that rejected it, before any other event is handled.
Quiescent == \A t \in TaskIds : t \in aborted => ~Live(t)

Init ==
  /\ sessionId \in SessionIds
  /\ dom \in [emptyState : {"attached"},
              sendFirstMessage : {"none", "attached"},
              fotterHidden : {TRUE}]
  /\ messageInput = <<>>
  /\ firstMessageInput = <<>>
  /\ messagesEl = <<>>
  /\ controller = 0
  /\ aborted = {}
  /\ tasks = <<>>
  /\ requests = <<>>
  /\ calls = <<>>
  /\ trace = <<>>

(* ---------------------------- startStream ----------------------------- *)

\* What the user has typed into a field since the last call, Untouched for
\* nothing.  The first-message field is typed into while its panel shows.
Untouched == <<"(untouched)">>
Fields == {"messageInput", "firstMessageInput"}

Typed(field, v, old, this) == IF field = this /\ v # Untouched THEN v ELSE old

\* line 95: sendFirstMessage && firstMessageInput.value
FirstMessage(first) == dom.sendFirstMessage # "none" /\ first # <<>>

\* The value the call uses (lines 92, 97)
RawText(msg, first) == IF FirstMessage(first) THEN first ELSE msg

TrimIdentity(s) == s

\* lines 92-100: the text of the message
MessageText(raw) == Trim(raw)

ReturnsLate(text) == FALSE

\* line 103: if (!text) return;
ReturnsEarly(text) == text = <<>>

appendUserMessage(els, text) ==
  Append(els, [kind |-> "user", body |-> Html(escapeHtml(text))])

appendAgentMessage(els) ==
  Append(els, [kind |-> "agent", body |-> TypingDot])

\* line 109: if (controller) controller.abort()
AbortPrevious(c, ab) == IF c # 0 THEN ab \cup {c} ELSE ab

FormDataNewSession(text) ==
  [user_message |-> text,
   session_id |-> IF requests = <<>> THEN sessionId
                  ELSE CHOOSE s \in SessionIds : s # sessionId]

\* lines 115-117
FormData(text) == [user_message |-> text, session_id |-> sessionId]

\* The submit or Enter handler, up to its first await (lines 88-124)
startStream(field, v) ==
  LET msg == Typed(field, v, messageInput, "messageInput")
      first == Typed(field, v, firstMessageInput, "firstMessageInput")
      raw == RawText(msg, first)
      text == MessageText(raw)
      id == Len(tasks) + 1
      els == appendAgentMessage(appendUserMessage(messagesEl, text))
  IN
  /\ Quiescent
  /\ Len(calls) < MaxSubmits
  /\ field = "firstMessageInput" /\ v # Untouched
       => dom.sendFirstMessage = "attached"
  /\ dom' = [emptyState |-> "removed",
             sendFirstMessage |-> IF FirstMessage(first) THEN "removed"
                                  ELSE dom.sendFirstMessage,
             fotterHidden |-> IF FirstMessage(first) THEN FALSE
                              ELSE dom.fotterHidden]
  /\ IF ReturnsEarly(text)
       THEN /\ messageInput' = msg
            /\ firstMessageInput' = first
            /\ calls' = Append(calls,
                 [raw |-> raw, task |-> 0, aborts |-> 0,
                  elsBefore |-> Len(messagesEl), elsAfter |-> Len(messagesEl),
                  reqBefore |-> Len(requests), reqAfter |-> Len(requests)])
            /\ UNCHANGED <<messagesEl, controller, aborted, tasks, requests,
                           trace>>
       ELSE /\ messagesEl' = els
            /\ messageInput' = <<>>
            /\ firstMessageInput' = <<>>
            /\ aborted' = AbortPrevious(controller, aborted)
            /\ controller' = id
            /\ tasks' = Append(tasks,
                 [pc |-> "fetch", agentBody |-> Len(els),
                  streamedText |-> <<>>, buffer |-> <<>>, pending |-> <<>>,
                  net |-> <<>>])
            /\ requests' = Append(requests, FormData(text))
            /\ trace' = Append(trace,
                 [sent |-> <<>>, status |-> "none", readCalled |-> FALSE,
                  cuts |-> {}, log |-> <<>>, outcome |-> "none"])
            /\ calls' = Append(calls,
                 [raw |-> raw, task |-> id, aborts |-> controller,
                  elsBefore |-> Len(messagesEl), elsAfter |-> Len(els),
                  reqBefore |-> Len(requests),
                  reqAfter |-> Len(requests) + 1])
  /\ UNCHANGED sessionId

(* --------------------------- the stream task -------------------------- *)

FinallyKeep(c, t) == c

\* line 161: controller = null
Finally(c, t) == 0

SetBodyOfLatest(els, i, b) == [els EXCEPT ![Len(els)].body = b]

\* agentBody.innerHTML = b, agentBody the const of line 112
SetBody(els, i, b) == [els EXCEPT ![i].body = b]

LeaveSilently(t, threw, outcome) ==
  /\ tasks' = [tasks EXCEPT ![t].pc = "done"]
  /\ messagesEl' = messagesEl
  /\ controller' = Finally(controller, t)
  /\ trace' = [trace EXCEPT ![t].outcome = outcome]

\* The task leaves the try statement: catch (when it threw), then finally.
Leave(t, threw, outcome) ==
  /\ tasks' = [tasks EXCEPT ![t].pc = "done"]
  /\ messagesEl' = IF threw
                     THEN SetBody(messagesEl, tasks[t].agentBody,
                                  Html(InterruptedHtml))
                     ELSE messagesEl
  /\ controller' = Finally(controller, t)
  /\ trace' = [trace EXCEPT ![t].outcome = outcome]

StatusPcNoReturn(ok) == "read"

\* lines 128-131: where the task goes after the status check
StatusPc(ok) == IF ok THEN "read" ELSE "done"

\* await fetch(...) resolves with a response whose body will be bytes
FetchResolve(t, ok, bytes) ==
  /\ Quiescent
  /\ tasks[t].pc = "fetch"
  /\ messageInput' = <<>>                                 \* resetTextarea()
  /\ tasks' = [tasks EXCEPT ![t].pc = StatusPc(ok), ![t].net = bytes]
  /\ messagesEl' = IF ok THEN messagesEl
                   ELSE SetBody(messagesEl, tasks[t].agentBody,
                                Html(ServerErrorHtml))
  /\ controller' = IF StatusPc(ok) = "done" THEN Finally(controller, t)
                   ELSE controller
  /\ trace' = [trace EXCEPT
                 ![t].sent = bytes,
                 ![t].status = IF ok THEN "ok" ELSE "not ok",
                 ![t].readCalled = StatusPc(ok) = "read",
                 ![t].outcome = IF StatusPc(ok) = "done" THEN "server error"
                                ELSE "none"]
  /\ UNCHANGED <<sessionId, dom, firstMessageInput, aborted, requests, calls>>

\* await fetch(...) rejects: the signal was aborted, or the network failed
FetchReject(t) ==
  /\ tasks[t].pc = "fetch"
  /\ t \in aborted \/ Quiescent
  /\ Leave(t, TRUE, "interrupted")
  /\ UNCHANGED <<sessionId, dom, messageInput, firstMessageInput, aborted,
                 requests, calls>>

RenderAlways(ev) == ev.type = "object"

\* line 150
ShouldRender(ev) ==
  ev.type = "object" /\ ev.node = "general_message" /\ ~ev.complete

AccumulateDelta(streamedText, content) == content

\* line 151: streamedText += event.content || ''
Accumulate(streamedText, content) == streamedText \o content

MatchedAlways(m) == TRUE

\* line 147: if (!match) continue
Matched(m) == m.found

SkipUnparsable(text) ==
  IF JSONparse(text).ok THEN JSONparse(text) ELSE [ok |-> TRUE, type |-> "number"]

\* line 149
ParseEvent(text) == JSONparse(text)

\* lines 146-154 for one part.  st: streamedText, body, threw, log
processPart(st, part) ==
  LET m == match(part)
      ev == ParseEvent(m.group)
      entry(result, text, body) ==
        [part |-> part, result |-> result, streamedText |-> text, body |-> body]
  IN  IF ~Matched(m)
        THEN [st EXCEPT !.log = Append(@, entry("skipped", st.streamedText, st.body))]
      ELSE IF ~ev.ok \/ ev.type = "null"
        THEN [st EXCEPT !.threw = TRUE,
                        !.log = Append(@, entry("threw", st.streamedText, st.body))]
      ELSE IF ShouldRender(ev)
        THEN LET text == Accumulate(st.streamedText, ev.content)
                 body == Html(escapeHtml(text))
             IN  [st EXCEPT !.streamedText = text, !.body = body,
                            !.log = Append(@, entry("rendered", text, body))]
      ELSE [st EXCEPT !.log = Append(@, entry("ignored", st.streamedText, st.body))]

\* line 145: for (const part of parts), left as soon as a part throws
RECURSIVE processParts(_, _)
processParts(st, parts) ==
  IF parts = <<>> \/ st.threw THEN st
  ELSE processParts(processPart(st, Head(parts)), Tail(parts))

KeepNothing(parts) == <<>>

\* line 143: buffer = parts.pop()
Keep(parts) == parts[Len(parts)]

CompleteAndLast(parts) == parts

\* the parts left in the array after the pop
Complete(parts) == SubSeq(parts, 1, Len(parts) - 1)

\* The kinds of place the chunk boundary after this read falls in
CutKinds(keep, rest) ==
  IF rest = <<>> THEN {}
  ELSE IF keep # <<>> /\ keep[Len(keep)] = NL /\ Head(rest) = NL
    THEN {"delimiter"}
  ELSE IF keep # <<>> THEN {"record"}
  ELSE {}

\* Whether the chunk boundary after this read falls inside a character
CutInCharacter(pending) == IF pending # <<>> THEN {"character"} ELSE {}

\* lines 141-155: decode the chunk, split the buffer, process the parts
Round(task, body, log, value) ==
  LET d == decode(task.pending, value)
      parts == split(task.buffer \o d.out)
      st == processParts([streamedText |-> task.streamedText, body |-> body,
                          threw |-> FALSE, log |-> log],
                         Complete(parts))
  IN  [st |-> st, buffer |-> Keep(parts), pending |-> d.pending]

\* await reader.read() resolves with the next n bytes of the body
ReadChunk(t, n) ==
  /\ Quiescent
  /\ tasks[t].pc = "read"
  /\ n \in 1..Len(tasks[t].net)
  /\ \E rest \in {SubSeq(tasks[t].net, n + 1, Len(tasks[t].net))} :
     \E r \in {Round(tasks[t], AgentBody(t), trace[t].log,
                     SubSeq(tasks[t].net, 1, n))} :
       /\ tasks' = [tasks EXCEPT
                      ![t].pc = IF r.st.threw THEN "done" ELSE "read",
                      ![t].net = rest,
                      ![t].streamedText = r.st.streamedText,
                      ![t].buffer = r.buffer,
                      ![t].pending = r.pending]
       /\ messagesEl' = SetBody(messagesEl, tasks[t].agentBody,
                                IF r.st.threw THEN Html(InterruptedHtml)
                                ELSE r.st.body)
       /\ controller' = IF r.st.threw THEN Finally(controller, t)
                        ELSE controller
       /\ trace' = [trace EXCEPT
                      ![t].log = r.st.log,
                      ![t].outcome = IF r.st.threw THEN "interrupted" ELSE @,
                      ![t].cuts = IF r.st.threw THEN @
                                  ELSE @ \cup CutKinds(r.buffer, rest)
                                         \cup CutInCharacter(r.pending)]
  /\ UNCHANGED <<sessionId, dom, messageInput, firstMessageInput, aborted,
                 requests, calls>>

ReadDoneFlush(t) ==
  /\ Quiescent
  /\ tasks[t].pc = "read"
  /\ tasks[t].net = <<>>
  /\ \E st \in {processParts([streamedText |-> tasks[t].streamedText,
                               body |-> AgentBody(t), threw |-> FALSE,
                               log |-> trace[t].log],
                              IF tasks[t].buffer = <<>> THEN <<>>
                              ELSE <<tasks[t].buffer>>)} :
       /\ tasks' = [tasks EXCEPT ![t].pc = "done",
                                 ![t].streamedText = st.streamedText,
                                 ![t].buffer = <<>>]
       /\ messagesEl' = SetBody(messagesEl, tasks[t].agentBody,
                                IF st.threw THEN Html(InterruptedHtml)
                                ELSE st.body)
       /\ controller' = Finally(controller, t)
       /\ trace' = [trace EXCEPT
                      ![t].log = st.log,
                      ![t].outcome = IF st.threw THEN "interrupted"
                                     ELSE "end of stream"]
  /\ UNCHANGED <<sessionId, dom, messageInput, firstMessageInput, aborted,
                 requests, calls>>

\* await reader.read() resolves with done: the body has been delivered
ReadDone(t) ==
  /\ Quiescent
  /\ tasks[t].pc = "read"
  /\ tasks[t].net = <<>>
  /\ Leave(t, FALSE, "end of stream")
  /\ UNCHANGED <<sessionId, dom, messageInput, firstMessageInput, aborted,
                 requests, calls>>

\* await reader.read() rejects: the signal was aborted, or the network failed
ReadReject(t) ==
  /\ tasks[t].pc = "read"
  /\ t \in aborted \/ Quiescent
  /\ Leave(t, TRUE, "interrupted")
  /\ UNCHANGED <<sessionId, dom, messageInput, firstMessageInput, aborted,
                 requests, calls>>

(* ----------------------------- the server ----------------------------- *)

Delimiter == <<NL, NL>>

\* data: {"node":"general_message","content":"a"}
RecPlain == DataPrefix \o <<SP, "{", "G", "a", "}">>
\* data:{"node":"general_message","content":"&\n<","complete":false}
RecEscaped == DataPrefix \o <<"{", "G", "&", "N", "<", "F", "}">>
\* data:{"node":"general_message","content":"e'","complete":true}
RecComplete == DataPrefix \o <<"{", "G", EAcute, "T", "}">>
\* data:{"node":"other","content":"a"}
RecOtherNode == DataPrefix \o <<"{", "O", "a", "}">>
\* a blank line too many before the record
RecLeadingNewline == <<NL>> \o DataPrefix \o <<"{", "G", EAcute, "}">>
\* a comment line, no data: prefix
RecNoPrefix == <<":", "k">>
\* data:{"node":"general_message"      (cut short)
RecBadJson == DataPrefix \o <<"{", "G">>
\* data:null
RecNull == DataPrefix \o <<"~">>
\* data:5
RecNumber == DataPrefix \o <<"5">>

Records == {RecPlain, RecEscaped, RecComplete, RecOtherNode, RecLeadingNewline,
            RecNoPrefix, RecBadJson, RecNull, RecNumber}

\* What may follow the last delimiter of a body
Tails == {<<>>, RecPlain}

RECURSIVE RecordTexts(_)
RecordTexts(n) ==
  IF n = 0 THEN {<<>>}
  ELSE LET shorter == RecordTexts(n - 1)
       IN  shorter \cup {r \o Delimiter \o b : r \in Records, b \in shorter}

\* The response bodies of SpecStream
Responses == {encode(b \o tl) : b \in RecordTexts(MaxRecords), tl \in Tails}

\* The response bodies of Spec
SpecResponses ==
  {encode(RecPlain \o Delimiter \o RecEscaped \o Delimiter),
   encode(RecNoPrefix \o Delimiter \o RecBadJson \o Delimiter)}

Min(a, b) == IF a < b THEN a ELSE b

(* -------------------------- specifications ---------------------------- *)

\* The tasks suspended at the await of line 120 ("fetch") or 138 ("read")
Awaiting(pc) == {t \in TaskIds : tasks[t].pc = pc}

Next ==
  \/ \E f \in Fields, v \in Inputs \cup {Untouched} : startStream(f, v)
  \/ \E t \in Awaiting("fetch") : \E ok \in BOOLEAN, b \in SpecResponses :
       FetchResolve(t, ok, b)
  \/ \E t \in Awaiting("fetch") : FetchReject(t)
  \/ \E t \in Awaiting("read") : ReadChunk(t, Min(Packet, Len(tasks[t].net)))
  \/ \E t \in Awaiting("read") : ReadDone(t)
  \/ \E t \in Awaiting("read") : ReadReject(t)

Spec == Init /\ [][Next]_vars

\* The sizes of the next chunk: up to MaxChunk bytes, or the whole body at once
ChunkSizes(t) ==
  {n \in 1..Len(tasks[t].net) :
     n <= MaxChunk \/ (n = Len(tasks[t].net) /\ tasks[t].net = trace[t].sent)}

\* One stream, every response body, cut into chunks in every such way
InitStream ==
  /\ Init
  /\ sessionId = "sess-k3f9-a1"
  /\ dom.sendFirstMessage = "none"

NextStream ==
  \/ startStream("messageInput", <<SP, "h", "<", SP>>) /\ calls = <<>>
  \/ \E t \in Awaiting("fetch") : \E ok \in BOOLEAN, b \in Responses :
       FetchResolve(t, ok, b)
  \/ \E t \in Awaiting("fetch") : FetchReject(t)
  \/ \E t \in Awaiting("read") : \E n \in ChunkSizes(t) : ReadChunk(t, n)
  \/ \E t \in Awaiting("read") : ReadDone(t)
  \/ \E t \in Awaiting("read") : ReadReject(t)

SpecStream == InitStream /\ [][NextStream]_vars

\* The reaction to the rejection of an aborted fetch or read: a microtask,
\* run as soon as the handler that called abort() returns
RejectAborted ==
  \E t \in aborted : Live(t) /\ (FetchReject(t) \/ ReadReject(t))

\* Spec, with the event loop running the pending reactions
SpecLoop == Spec /\ WF_vars(RejectAborted)

(* ------------------------- reading the history ------------------------ *)

IsBlank(s) == \A i \in 1..Len(s) : s[i] \in WhiteSpace

\* The streamed text and the body a task has before log entry i
TextBefore(log, i) == IF i = 1 THEN <<>> ELSE log[i - 1].streamedText
BodyBefore(log, i) == IF i = 1 THEN TypingDot ELSE log[i - 1].body

\* Tabulated for the records the server sends
RecordHasPrefix == [r \in Records |-> IndexOfData(r) # 0]
RecordPayload == [r \in Records |-> JSONparse(match(r).group)]

HasDataPrefix(part) ==
  IF part \in Records THEN RecordHasPrefix[part] ELSE IndexOfData(part) # 0

\* The payload of a part that has the prefix, as JSON.parse sees it
PayloadOf(part) ==
  IF part \in Records THEN RecordPayload[part] ELSE JSONparse(match(part).group)

\* A part whose payload is a general_message event that is not complete
IsFragment(part) ==
  /\ HasDataPrefix(part)
  /\ PayloadOf(part).ok
  /\ PayloadOf(part).type = "object"
  /\ PayloadOf(part).node = "general_message"
  /\ ~PayloadOf(part).complete

\* What a part adds to the text: its content when it is a fragment
ContentOf(part) == IF IsFragment(part) THEN PayloadOf(part).content ELSE <<>>

\* ContentOf, tabulated for the records the server sends
RecordContent == [r \in Records |-> ContentOf(r)]

\* The contents of the fragments among the first i log entries, in order
RECURSIVE Fragments(_, _)
Fragments(log, i) ==
  IF i = 0 THEN <<>>
  ELSE Fragments(log, i - 1)
       \o (IF log[i].part \in Records THEN RecordContent[log[i].part]
           ELSE ContentOf(log[i].part))

PartsOf(log) == [i \in 1..Len(log) |-> log[i].part]

\* A fresh task's locals, and what one read of a whole body makes of them
FreshTask == [streamedText |-> <<>>, buffer |-> <<>>, pending |-> <<>>]
InOneChunk(bytes) == Round(FreshTask, TypingDot, <<>>, bytes)

(* ------------------------------- claims ------------------------------- *)

\* C1: at any time at most one stream task is live and un-aborted: a
\* submission that begins while an earlier stream is in flight aborts it.
C1_AtMostOneLiveStream ==
  Cardinality({t \in TaskIds : Live(t) /\ t \notin aborted}) <= 1

\* C2: once a later submission has superseded a stream, that stream's task
\* writes nothing more (content or error message) to its agent element.
C2_SupersededTaskNeverWrites ==
  [][\A t \in TaskIds :
       t \in aborted =>
         messagesEl'[tasks[t].agentBody] = messagesEl[tasks[t].agentBody]]_vars

\* C3: chunk-boundary independence: when the stream ends, the agent text is
\* what it is when the whole response arrives as a single chunk.
C3_ChunkBoundaryIndependence ==
  \A t \in TaskIds :
    trace[t].outcome = "end of stream" =>
      /\ AgentBody(t) = InOneChunk(trace[t].sent).st.body
      /\ tasks[t].streamedText = InOneChunk(trace[t].sent).st.streamedText

C3_Witness ==
  \E t \in TaskIds :
    /\ trace[t].outcome = "end of stream"
    /\ trace[t].cuts = {"record", "delimiter"}
    /\ \A i \in 1..Len(trace[t].log) : IsFragment(trace[t].log[i].part)
    /\ Len(trace[t].log) = 2
    /\ AgentBody(t) = Html(escapeHtml(<<"a", "&", NL, "<">>))

\* C4 as stated: a record without the data: prefix, or whose payload does
\* not parse, is skipped silently and the stream continues.
C4_MalformedRecordSkipped ==
  \A t \in TaskIds :
    \A i \in 1..Len(trace[t].log) :
      LET e == trace[t].log[i]
      IN  (~HasDataPrefix(e.part) \/ ~PayloadOf(e.part).ok)
            => e.result # "threw"

\* C4 as amended: a record without the data: prefix is skipped silently and
\* the records after it are processed; a record whose payload makes
\* JSON.parse throw, or is null, ends the task with the interrupted message
\* and is the last record processed.
C4_OnlyPrefixlessRecordsSkipped ==
  \A t \in TaskIds :
    LET log == trace[t].log
        all == Complete(split(decode(<<>>, trace[t].sent).out))
    IN  /\ \A i \in 1..Len(log) :
             ~HasDataPrefix(log[i].part) => log[i].result = "skipped"
        /\ \A i \in 1..Len(log) :
             /\ HasDataPrefix(log[i].part)
             /\ ~PayloadOf(log[i].part).ok \/ PayloadOf(log[i].part).type = "null"
             => /\ log[i].result = "threw"
                /\ i = Len(log)
                /\ ~Live(t)
                /\ trace[t].outcome = "interrupted"
                /\ AgentBody(t) = Html(InterruptedHtml)
        /\ Len(log) <= Len(all)
        /\ PartsOf(log) = SubSeq(all, 1, Len(log))
        /\ trace[t].outcome = "end of stream" => Len(log) = Len(all)

C4_Witness ==
  \E t \in TaskIds :
    /\ Len(trace[t].log) = 2
    /\ trace[t].log[1].part = RecNoPrefix
    /\ trace[t].log[1].result = "skipped"
    /\ trace[t].log[2].part = RecBadJson
    /\ trace[t].log[2].result = "threw"
    /\ tasks[t].buffer = RecPlain
    /\ AgentBody(t) = Html(InterruptedHtml)

\* C5: a complete record without the data: prefix changes neither the
\* accumulator nor the agent element, and the other records are processed
\* as if it had not been there.
C5_PrefixlessRecordIgnored ==
  \A t \in TaskIds :
    LET log == trace[t].log
        without == processParts([streamedText |-> <<>>, body |-> TypingDot,
                                 threw |-> FALSE, log |-> <<>>],
                                SelectSeq(PartsOf(log), HasDataPrefix))
    IN  /\ \A i \in 1..Len(log) :
             ~HasDataPrefix(log[i].part) =>
               /\ log[i].result = "skipped"
               /\ log[i].streamedText = TextBefore(log, i)
               /\ log[i].body = BodyBefore(log, i)
        /\ tasks[t].streamedText = without.streamedText
        /\ without.threw <=> (log # <<>> /\ log[Len(log)].result = "threw")
        /\ tasks[t].pc = "read" \/ trace[t].outcome = "end of stream"
             => AgentBody(t) = without.body

C5_Witness ==
  \E t \in TaskIds :
    /\ trace[t].outcome = "end of stream"
    /\ Len(trace[t].log) = 2
    /\ trace[t].log[1].part = RecEscaped
    /\ trace[t].log[2].part = RecNoPrefix
    /\ trace[t].log[2].result = "skipped"
    /\ AgentBody(t) = Html(escapeHtml(<<"&", NL, "<">>))

\* C6: when the status is not a success status the agent element holds
\* exactly "Server error.", the body is never read, and the task is over.
C6_ServerErrorAndNoRead ==
  \A t \in TaskIds :
    trace[t].status = "not ok" =>
      /\ AgentBody(t) = Html(ServerErrorHtml)
      /\ ~trace[t].readCalled
      /\ tasks[t].net = trace[t].sent
      /\ trace[t].log = <<>>
      /\ ~Live(t)

C6_Witness ==
  \E t, u \in TaskIds :
    /\ t < u
    /\ trace[t].status = "not ok"
    /\ AgentBody(t) = Html(ServerErrorHtml)
    /\ trace[u].outcome = "end of stream"
    /\ trace[u].log # <<>>

NonBlankCalls == {k \in 1..Len(calls) : ~IsBlank(calls[k].raw)}

\* C7: a submission whose input is empty or only white space appends no
\* user element and no agent element and issues no request.
C7_BlankSubmissionIsNoOp ==
  /\ \A k \in 1..Len(calls) :
       IsBlank(calls[k].raw) =>
         /\ calls[k].task = 0
         /\ calls[k].elsAfter = calls[k].elsBefore
         /\ calls[k].reqAfter = calls[k].reqBefore
  /\ Len(messagesEl) = 2 * Cardinality(NonBlankCalls)
  /\ Len(requests) = Cardinality(NonBlankCalls)

C7_Witness ==
  \E k \in 2..Len(calls) :
    /\ calls[k - 1].task # 0
    /\ calls[k].raw = <<SP, NL>>
    /\ Len(messagesEl) = 2
    /\ Len(requests) = 1

\* C8: an event whose node is not general_message, or whose complete flag
\* is true, leaves the accumulator and the agent body unchanged; only
\* general_message events that are not complete are rendered.
C8_OnlyOpenGeneralMessagesRender ==
  \A t \in TaskIds :
    \A i \in 1..Len(trace[t].log) :
      LET e == trace[t].log[i]
          log == trace[t].log
      IN  /\ e.result = "rendered" => IsFragment(e.part)
          /\ (/\ HasDataPrefix(e.part)
              /\ PayloadOf(e.part).ok
              /\ PayloadOf(e.part).type = "object"
              /\ PayloadOf(e.part).node # "general_message"
                   \/ PayloadOf(e.part).complete)
             => /\ e.result = "ignored"
                /\ e.streamedText = TextBefore(log, i)
                /\ e.body = BodyBefore(log, i)

C8_Witness ==
  \E t \in TaskIds :
    /\ trace[t].outcome = "end of stream"
    /\ Len(trace[t].log) = 2
    /\ trace[t].log[1].part = RecPlain
    /\ trace[t].log[2].part = RecComplete
    /\ trace[t].log[2].result = "ignored"
    /\ AgentBody(t) = Html(<<"a">>)

\* C9: after each rendered fragment the agent body is the escaped
\* concatenation, in arrival order, of the content of every general_message
\* event that is not complete processed so far in the stream.
C9_BodyIsEscapedAccumulator ==
  \A t \in TaskIds :
    LET log == trace[t].log
    IN  /\ \A i \in 1..Len(log) :
             log[i].result = "rendered" =>
               log[i].body = Html(escapeHtml(Fragments(log, i)))
        /\ (/\ tasks[t].pc = "read" \/ trace[t].outcome = "end of stream"
            /\ \E i \in 1..Len(log) : log[i].result = "rendered")
           => AgentBody(t) = Html(escapeHtml(Fragments(log, Len(log))))

C9_Witness ==
  \E t \in TaskIds :
    /\ Len(trace[t].log) = 2
    /\ trace[t].log[1].part = RecEscaped
    /\ trace[t].log[2].part = RecLeadingNewline
    /\ trace[t].log[2].result = "rendered"
    /\ AgentBody(t) = Html(escapeHtml(<<"&", NL, "<", EAcute>>))

\* C10: when a stream task ends, however it ends, the request handle is
\* null once it has finished, and a following non-empty submission appends
\* its user element and its agent element and issues a new request.
C10_UsableAfterStreamEnds ==
  [][/\ \A t \in TaskIds :
          Live(t) /\ tasks'[t].pc = "done" => controller' = 0
     /\ (/\ \E t \in TaskIds : ~Live(t)
         /\ Len(calls') = Len(calls) + 1
         /\ ~IsBlank(calls'[Len(calls')].raw))
        => /\ Len(messagesEl') = Len(messagesEl) + 2
           /\ SubSeq(messagesEl', 1, Len(messagesEl)) = messagesEl
           /\ messagesEl'[Len(messagesEl) + 1].kind = "user"
           /\ messagesEl'[Len(messagesEl) + 2] =
                [kind |-> "agent", body |-> TypingDot]
           /\ Len(requests') = Len(requests) + 1
           /\ Len(tasks') = Len(tasks) + 1
           /\ tasks'[Len(tasks')].pc = "fetch"
           /\ tasks'[Len(tasks')].agentBody = Len(messagesEl')
           /\ controller' = Len(tasks')]_vars

C10_Witness ==
  \E t, u \in TaskIds :
    /\ u = t + 1
    /\ trace[t].outcome = "interrupted"
    /\ trace[t].log # <<>>
    /\ trace[t].log[Len(trace[t].log)].result = "threw"
    /\ t \notin aborted
    /\ tasks[u].pc = "fetch"
    /\ controller = u
    /\ messagesEl[tasks[u].agentBody].body = TypingDot

\* m is raw without the white space at its two ends
IsTrimOf(m, raw) ==
  /\ m # <<>> => Head(m) \notin WhiteSpace /\ m[Len(m)] \notin WhiteSpace
  /\ \E i \in 0..Len(raw) :
       /\ i + Len(m) <= Len(raw)
       /\ SubSeq(raw, i + 1, i + Len(m)) = m
       /\ \A j \in 1..Len(raw) :
            j <= i \/ j > i + Len(m) => raw[j] \in WhiteSpace

\* C11: every non-empty submission issues exactly one request, carrying
\* the trimmed text as user_message and the page's session id as session_id;
\* the session id is the same in every request, and no failure of a stream
\* (non-success status, exception, cancellation) issues a request again.
C11_OneRequestPerSubmission ==
  /\ Len(requests) = Cardinality(NonBlankCalls)
  /\ Len(requests) = Len(tasks)
  /\ \A k \in NonBlankCalls :
       /\ calls[k].reqAfter = calls[k].reqBefore + 1
       /\ calls[k].task = calls[k].reqAfter
       /\ IsTrimOf(requests[calls[k].task].user_message, calls[k].raw)
       /\ requests[calls[k].task].user_message # <<>>
  /\ \A j \in 1..Len(requests) : requests[j].session_id = sessionId

C11_Witness ==
  /\ Len(requests) = 3
  /\ \A t \in TaskIds : ~Live(t)
  /\ trace[1].outcome = "server error"
  /\ trace[2].outcome = "interrupted"
  /\ trace[2].log # <<>>
  /\ trace[3].outcome = "interrupted"
  /\ 2 \in aborted
  /\ 3 \notin aborted

\* The text whose split is parts
RECURSIVE Join(_)
Join(parts) ==
  IF Len(parts) = 1 THEN parts[1]
  ELSE parts[1] \o Delimiter \o Join(Tail(parts))

\* The bytes of the body a task has read so far
Delivered(t) ==
  SubSeq(trace[t].sent, 1, Len(trace[t].sent) - Len(tasks[t].net))

\* A task that read without an exception
ReadsCleanly(t) ==
  tasks[t].pc = "read" \/ trace[t].outcome = "end of stream"

\* C12: a multi-byte character whose bytes are split across two chunks is
\* decoded as one character: the text appended to the buffer over the chunks
\* read so far is the decoding of their concatenated bytes in a single call,
\* the decoder carrying the incomplete prefix from one read to the next.
C12_SplitCharacterDecodedOnce ==
  \A t \in TaskIds :
    ReadsCleanly(t) =>
      LET whole == decode(<<>>, Delivered(t))
          text == Join(Append(PartsOf(trace[t].log), tasks[t].buffer))
      IN  /\ text = whole.out
          /\ tasks[t].pending = whole.pending
          /\ \A i \in 1..Len(text) : text[i] # Replacement

C12_Witness ==
  \E t \in TaskIds :
    /\ trace[t].outcome = "end of stream"
    /\ "character" \in trace[t].cuts
    /\ Len(trace[t].log) = 1
    /\ trace[t].log[1].part = RecLeadingNewline
    /\ AgentBody(t) = Html(<<EAcute>>)

\* Whether a task has rendered a fragment
HasRendered(t) ==
  \E i \in 1..Len(trace[t].log) : trace[t].log[i].result = "rendered"

\* The body of a task's agent element as the task's own history gives it,
\* text being the fragments the task has rendered
OwnBody(t, text) ==
  IF trace[t].outcome = "server error" THEN Html(ServerErrorHtml)
  ELSE IF trace[t].outcome = "interrupted" THEN Html(InterruptedHtml)
  ELSE IF HasRendered(t) THEN Html(escapeHtml(text))
  ELSE TypingDot

\* The user element a submission of raw appends, tabulated for the inputs
UserElement ==
  [raw \in Inputs |->
     [kind |-> "user", body |-> Html(escapeHtml(MessageText(raw)))]]

\* C13: every non-empty submission appends exactly one user element and one
\* agent element, the user element first; elements are never removed or
\* reordered, so the list is in submission order; and every write of a
\* submission's task, content or error, goes to the agent element that
\* submission created, from an accumulator holding only that stream's
\* fragments.
C13_ElementsInOrderAndOwnWrites ==
  /\ Len(messagesEl) = 2 * Len(tasks)
  /\ \A k \in NonBlankCalls :
       /\ calls[k].elsAfter = calls[k].elsBefore + 2
       /\ calls[k].elsAfter = 2 * calls[k].task
       /\ \A j \in NonBlankCalls : j < k => calls[j].task < calls[k].task
       /\ messagesEl[2 * calls[k].task - 1] = UserElement[calls[k].raw]
  /\ \A t \in TaskIds :
       /\ messagesEl[2 * t - 1].kind = "user"
       /\ messagesEl[2 * t].kind = "agent"
       /\ tasks[t].agentBody = 2 * t
       /\ \E own \in {Fragments(trace[t].log, Len(trace[t].log))} :
            /\ tasks[t].streamedText = own
            /\ messagesEl[2 * t].body = OwnBody(t, own)

C13_Witness ==
  /\ Len(messagesEl) = 6
  /\ AgentBody(1) = Html(InterruptedHtml)
  /\ 1 \in aborted
  /\ trace[1].log # <<>>
  /\ AgentBody(2) = Html(escapeHtml(<<"a", "&", NL, "<">>))
  /\ trace[2].outcome = "end of stream"
  /\ AgentBody(3) = Html(ServerErrorHtml)

NoDelimiter(s) == \A i \in 1..(Len(s) - 1) : ~(s[i] = NL /\ s[i + 1] = NL)

\* C14: a record is processed only once it is known to be complete, and
\* exactly once: after each read the segments followed by a delimiter have
\* been processed in order, the text after the last delimiter is the new
\* buffer, and the buffer holds no delimiter between reads; no record is
\* skipped over, processed twice, or processed from a partial prefix.
C14_RecordsProcessedWhenComplete ==
  \A t \in TaskIds :
    trace[t].readCalled =>
      LET parts == split(decode(<<>>, Delivered(t)).out)
          done == PartsOf(trace[t].log)
      IN  /\ NoDelimiter(tasks[t].buffer)
          /\ Len(done) < Len(parts)
          /\ done = SubSeq(parts, 1, Len(done))
          /\ ReadsCleanly(t) =>
               /\ Len(done) = Len(parts) - 1
               /\ tasks[t].buffer = parts[Len(parts)]

C14_Witness ==
  \E t \in TaskIds :
    /\ tasks[t].pc = "read"
    /\ tasks[t].net # <<>>
    /\ PartsOf(trace[t].log) = <<RecEscaped>>
    /\ tasks[t].buffer = <<"d", "a", "t">>
    /\ trace[t].cuts = {"record"}

\* C15: when a later submission aborts a stream, its pending fetch or read
\* rejects: the task processes no further chunk, renders "Connection
\* interrupted" into its own agent element and eventually terminates;
\* likewise an exception during a read or a parse ends the task with exactly
\* one such message, and the task writes nothing after it.
C15_AbortedOrFailedTaskEndsInterrupted ==
  /\ [][\A t \in TaskIds :
          /\ (t \in aborted /\ Live(t)) =>
               /\ tasks'[t] = [tasks[t] EXCEPT !.pc = "done"]
               /\ trace'[t] = [trace[t] EXCEPT !.outcome = "interrupted"]
               /\ messagesEl' = [messagesEl EXCEPT
                                   ![tasks[t].agentBody].body =
                                     Html(InterruptedHtml)]
          /\ (Live(t) /\ trace'[t].outcome = "interrupted") =>
               /\ tasks'[t].pc = "done"
               /\ messagesEl'[tasks[t].agentBody].body = Html(InterruptedHtml)
          /\ ~Live(t) =>
               /\ tasks'[t] = tasks[t]
               /\ trace'[t] = trace[t]
               /\ messagesEl'[tasks[t].agentBody] =
                    messagesEl[tasks[t].agentBody]]_vars
  /\ ~Quiescent ~> Quiescent

C15_Witness ==
  \E t, u \in TaskIds :
    /\ t \in aborted
    /\ ~Live(t)
    /\ trace[t].log # <<>>
    /\ tasks[t].net # <<>>
    /\ AgentBody(t) = Html(InterruptedHtml)
    /\ trace[u].log # <<>>
    /\ trace[u].log[Len(trace[u].log)].result = "threw"
    /\ AgentBody(u) = Html(InterruptedHtml)

\* C16: whenever a started stream task has neither terminated nor been
\* aborted, the shared request handle refers to that task's own abort
\* controller: a task that finishes never clears or replaces the handle of
\* a newer stream that is still running.
C16_HandleRefersToRunningStream ==
  \A t \in TaskIds : Live(t) /\ t \notin aborted => controller = t

\* The text of a body up to and including its last delimiter
Terminated(text) ==
  SubSeq(text, 1, Len(text) - Len(split(text)[Len(split(text))]))

\* C17: at end-of-stream the text still in the buffer (a final record with
\* no delimiter after it) is discarded: it is never parsed and changes
\* neither the accumulator nor the agent element; the final text depends
\* only on the records that a delimiter terminated.
C17_UnterminatedTailDiscarded ==
  \A t \in TaskIds :
    trace[t].outcome = "end of stream" =>
      LET text == decode(<<>>, trace[t].sent).out
          parts == split(text)
          only == InOneChunk(encode(Terminated(text))).st
      IN  /\ tasks[t].buffer = parts[Len(parts)]
          /\ Len(trace[t].log) = Len(parts) - 1
          /\ tasks[t].streamedText = only.streamedText
          /\ AgentBody(t) = only.body

C17_Witness ==
  \E t \in TaskIds :
    /\ trace[t].outcome = "end of stream"
    /\ tasks[t].buffer = RecPlain
    /\ PartsOf(trace[t].log) = <<RecEscaped>>
    /\ tasks[t].streamedText = <<"&", NL, "<">>
    /\ AgentBody(t) = Html(escapeHtml(<<"&", NL, "<">>))

\* C18: a submission whose text is empty after trimming leaves the stream
\* in flight untouched: it aborts no request, leaves the request handle as
\* it is, and the running task stays where it is, still rendering into its
\* agent element.
C18_BlankSubmissionLeavesStreamAlone ==
  [][(/\ Len(calls') = Len(calls) + 1
      /\ IsBlank(calls'[Len(calls')].raw))
     => /\ controller' = controller
        /\ aborted' = aborted
        /\ tasks' = tasks
        /\ trace' = trace
        /\ messagesEl' = messagesEl
        /\ requests' = requests]_vars

C18_Witness ==
  /\ Len(calls) = 2
  /\ calls[1].task = 1
  /\ calls[2].raw = <<SP, NL>>
  /\ controller = 1
  /\ aborted = {}
  /\ tasks[1].pc = "read"
  /\ Len(trace[1].log) = 2
  /\ AgentBody(1) = Html(escapeHtml(<<"a", "&", NL, "<">>))

\* C19: an agent element shows the typing indicator from its creation until
\* its task's first write (the first rendered fragment, "Server error." or
\* "Connection interrupted") and never again afterwards; a stream that
\* reaches end-of-stream without a rendered fragment leaves the indicator.
C19_TypingIndicatorUntilFirstWrite ==
  [][/\ \A t \in TaskIds :
          ~AgentBody(t).dot => ~messagesEl'[tasks[t].agentBody].body.dot
     /\ \A t \in DOMAIN tasks' :
          LET shows == messagesEl'[tasks'[t].agentBody].body.dot
              log == trace'[t].log
              rendered == \E i \in 1..Len(log) : log[i].result = "rendered"
          IN  /\ t \notin TaskIds => shows
              /\ shows <=> /\ trace'[t].outcome \in {"none", "end of stream"}
                           /\ ~rendered]_vars

C19_Witness ==
  \E t \in TaskIds :
    /\ trace[t].outcome = "end of stream"
    /\ PartsOf(trace[t].log) = <<RecOtherNode, RecComplete>>
    /\ tasks[t].buffer = <<>>
    /\ AgentBody(t) = TypingDot

====
